---- MODULE Spec2Model ----
(***************************************************************************)
(* A model of pipeline.py: the batch driver that scans a folder for .xes   *)
(* event logs, runs the four discovery miners on each, scores every model  *)
(* with five conformance metrics and writes the execution times, the       *)
(* images, the PNML files and the conformance CSV of each log.             *)
(*                                                                         *)
(* The process-mining library is opaque: a library call either returns a   *)
(* value that is a fixed function of its arguments, or raises.  One action *)
(* of the model is one library call or one file-writing step of the code,  *)
(* and pc is the position of the single thread of control.                 *)
(***************************************************************************)
EXTENDS Integers, Sequences, FiniteSets, TLC

----------------------------------------------------------------------------
(* Bounds of the model *)

\* largest number of entries in the input folder
MaxEntries == 3
\* how many library calls of one behaviour depart from the regular outcome:
\* a conformance metric that raises, a miner that takes a millisecond
MaxIrregular == 1
\* how many times the program is started in one behaviour
MaxRuns == 2
\* largest number of entries in the input folder when the program is started again
MaxRerunEntries == 1

----------------------------------------------------------------------------
(* Strings that are compared or searched are sequences of code points *)

\* ".xes"
Suffix == <<46, 120, 101, 115>>

\* str.endswith
endswith(s, suf) ==
    /\ Len(s) >= Len(suf)
    /\ SubSeq(s, Len(s) - Len(suf) + 1, Len(s)) = suf

\* str.__lt__: the order of the first differing code point, a proper prefix first
RECURSIVE StrLess(_, _)
StrLess(s, t) ==
    IF s = <<>> THEN t # <<>>
    ELSE IF t = <<>> THEN FALSE
    ELSE IF s[1] # t[1] THEN s[1] < t[1]
    ELSE StrLess(Tail(s), Tail(t))

----------------------------------------------------------------------------
(* The input folder *)

DirEntry(n, k, c) == [name |-> n, kind |-> k, content |-> c]

\* The entries an input folder is drawn from: a.xes, b.xes, B.xes (a symbolic
\* link to a log stored elsewhere), c.xes (a subdirectory) and axes.
Pool ==
    { DirEntry(<<97, 46, 120, 101, 115>>, "file", 1),
      DirEntry(<<98, 46, 120, 101, 115>>, "file", 2),
      DirEntry(<<66, 46, 120, 101, 115>>, "symlink_to_file", 3),
      DirEntry(<<99, 46, 120, 101, 115>>, "directory", 0),
      DirEntry(<<97, 120, 101, 115>>, "file", 4) }

\* os.DirEntry.is_file(): follows symbolic links
is_file(e) == e.kind \in {"file", "symlink_to_file"}

\* the orders in which os.scandir may yield the entries of a folder
ScanOrders(S) ==
    { s \in [1..Cardinality(S) -> S] : \A j, k \in DOMAIN s : j # k => s[j] # s[k] }

\* a bug: the kind of the entry is not asked for
IsXesName(e) == endswith(e.name, Suffix)

\* the condition of the scan loop
IsXesFile(e) == is_file(e) /\ endswith(e.name, Suffix)

\* list.sort(key=lambda x: x.name): a stable sort by name
RECURSIVE InsertByName(_, _)
InsertByName(e, s) ==
    IF s = <<>> THEN <<e>>
    ELSE IF StrLess(s[1].name, e.name) THEN <<s[1]>> \o InsertByName(e, Tail(s))
    ELSE <<e>> \o s

RECURSIVE SortedByName(_)
SortedByName(s) ==
    IF s = <<>> THEN <<>> ELSE InsertByName(s[1], SortedByName(Tail(s)))

\* a bug: the list is left in scan order
Unsorted(s) == s

SortFilesByName(s) == SortedByName(s)

----------------------------------------------------------------------------
(* The output tree: directory path -> file name -> content *)

output_base_dir == "output/"

\* a bug: every log is given the base directory itself
join_base(base, n) == <<base>>

\* os.path.join(output_base_dir, name)
join(base, n) == <<base, n>>

NoFiles == [x \in {} |-> <<>>]

\* os.makedirs(d, exist_ok=...)
makedirs(f, d, exist_ok) ==
    IF d \in DOMAIN f
    THEN [err |-> ~exist_ok, fs |-> f]
    ELSE [err |-> FALSE, fs |-> [x \in DOMAIN f \cup {d} |-> IF x = d THEN NoFiles ELSE f[x]]]

\* open(path, "w") and the writes: the file is created or replaced
WriteFile(f, d, n, c) ==
    [f EXCEPT ![d] = [x \in DOMAIN @ \cup {n} |-> IF x = n THEN c ELSE @[x]]]

\* the paths of the files, and the file names of every directory
Paths(f) == UNION { { <<d, n>> : n \in DOMAIN f[d] } : d \in DOMAIN f }
Tree(f) == [d \in DOMAIN f |-> DOMAIN f[d]]

----------------------------------------------------------------------------
(* The library and the values written *)

AlgorithmNames == <<"alpha", "inductive", "heuristics", "ilp">>

\* the five metric calls of calc_conformance, in the order of the code
MetricCalls ==
    <<"fitness_alignments", "fitness_token_based_replay", "precision_alignments",
      "precision_token_based_replay", "generalization_tbr">>

None == [t |-> "None"]
Float(v) == [t |-> "float", v |-> v]
Str(s) == [t |-> "str", v |-> s]

\* pm4py.read_xes
read_xes(e) == e.content

\* the net a miner returns for a log
Net(log, alg) == <<"net", alg, log>>

\* the value (in thousandths) a conformance call returns for a log and a net
LibMetric(log, alg, call) == ((log * 7 + alg * 3 + call * 5) % 11) * 100

\* f"{x:.3f}" of a time in seconds, the time given in milliseconds
Format3f(ms) ==
    LET frac == ms % 1000
        pad == IF frac < 10 THEN "00" ELSE IF frac < 100 THEN "0" ELSE ""
    IN  ToString(ms \div 1000) \o "." \o pad \o ToString(frac)

\* the lines of execution_times.txt, each a sequence of the pieces written
TimesHeader ==
    << <<"Algorithm Execution Times (seconds)">>,
       <<"================================">> >>

\* a bug: the two header lines are not written
TimesLinesNoHeader(times) ==
    [j \in 1..Len(times) |-> <<times[j][1], ": ", Format3f(times[j][2])>>]

TimesLines(times) ==
    TimesHeader \o [j \in 1..Len(times) |-> <<times[j][1], ": ", Format3f(times[j][2])>>]

\* the dictionary calc_conformance returns
MetricsDict(name, v) ==
    [algorithm |-> Str(name),
     fitness_alignments |-> v[1],
     fitness_token_based |-> v[2],
     precision_alignments |-> v[3],
     precision_token_based |-> v[4],
     generalization |-> v[5]]

fieldnames ==
    <<"algorithm", "fitness_alignments", "fitness_token_based",
      "precision_alignments", "precision_token_based", "generalization">>

\* a bug: None is written as str(None)
CellStr(x) ==
    CASE x.t = "None" -> "None"
      [] x.t = "float" -> ToString(x.v)
      [] x.t = "str" -> x.v

\* what csv.DictWriter writes for a value: None as the empty string, else str(value)
Cell(x) ==
    CASE x.t = "None" -> ""
      [] x.t = "float" -> ToString(x.v)
      [] x.t = "str" -> x.v

\* DictWriter.writerow
CsvRow(d) ==
    [j \in 1..Len(fieldnames) |->
        IF fieldnames[j] \in DOMAIN d THEN Cell(d[fieldnames[j]]) ELSE ""]

\* the rows of conformance_metrics.csv
CsvRows(metrics_list) ==
    <<fieldnames>> \o [j \in 1..Len(metrics_list) |-> CsvRow(metrics_list[j])]

PngName(alg) == alg \o "_petri_net.png"
PnmlName(alg) == alg \o "_model.pnml"

----------------------------------------------------------------------------
(* State *)

VARIABLES
    dir,                  \* the entries of the input folder
    fs,                   \* the output tree
    now,                  \* time.time(), in milliseconds
    run,                  \* how many times the program was started
    pc,                   \* the position of control
    error,                \* the exception that ended the run, or "none"
    scan,                 \* main: the entries os.scandir has yet to yield
    xes_files,            \* main: xes_files
    i,                    \* main: index in xes_files of file_entry
    output_directory,     \* main: output_directory
    results,              \* main: the keys of results, in insertion order
    event_log,            \* process_event_log: event_log
    a,                    \* index of the algorithm at hand (1..4)
    execution_times,      \* discover_models: execution_times, in insertion order
    nets,                 \* discover_models: the nets discovered so far
    models,               \* process_event_log: models, in insertion order
    m,                    \* calc_conformance: index of the metric at hand (1..5)
    vals,                 \* calc_conformance: fitness_ab .. gen_tbr set so far
    conformance_metrics,  \* process_event_log: conformance_metrics
    pnml_files,           \* process_event_log: pnml_files, in insertion order
    load_calls,           \* history: names passed to load_event_log in this run
    writes,               \* history: the paths written in this run
    failed,               \* history: <<algorithm, metric>> calls that raised for this log
    irregular,            \* history: library calls that departed from the regular outcome
    presorted,            \* history: the scan yielded the logs in ascending order
    first_run_tree        \* history: the output tree when the first run completed

main_vars == <<scan, xes_files, i, output_directory, results>>
log_vars == <<event_log, a, execution_times, nets, models, m, vals,
              conformance_metrics, pnml_files>>
env_vars == <<dir, run, first_run_tree>>
hist_vars == <<load_calls, writes, failed, irregular, presorted>>
vars == <<dir, fs, now, run, pc, error, scan, xes_files, i, output_directory, results,
          event_log, a, execution_times, nets, models, m, vals, conformance_metrics,
          pnml_files, load_calls, writes, failed, irregular, presorted, first_run_tree>>

\* the state of a fresh interpreter at the call of main
Start(order) ==
    /\ pc = "scan"
    /\ error = "none"
    /\ scan = order
    /\ xes_files = <<>>
    /\ i = 0
    /\ output_directory = <<>>
    /\ results = <<>>
    /\ event_log = 0
    /\ a = 0
    /\ execution_times = <<>>
    /\ nets = <<>>
    /\ models = <<>>
    /\ m = 0
    /\ vals = <<>>
    /\ conformance_metrics = <<>>
    /\ pnml_files = <<>>
    /\ load_calls = <<>>
    /\ writes = {}
    /\ failed = {}
    /\ presorted = TRUE

Init ==
    /\ dir \in { S \in SUBSET Pool : Cardinality(S) <= MaxEntries }
    /\ fs = NoFiles
    /\ now = 0
    /\ run = 1
    /\ irregular = 0
    /\ first_run_tree = NoFiles
    /\ \E order \in ScanOrders(dir) : Start(order)

\* a bug: the exception is caught around process_event_log and the loop goes on
RaiseAndGoOn(exc) ==
    /\ pc' = "loop"
    /\ error' = exc

\* an exception nothing catches: the interpreter exits
Raise(exc) ==
    /\ pc' = "aborted"
    /\ error' = exc

file_entry == xes_files[i]
algorithm_name == AlgorithmNames[a]

----------------------------------------------------------------------------
(* main: the scan *)

\* a sequence of names is in strictly ascending order
Ascending(names) ==
    \A j, k \in DOMAIN names : j < k => StrLess(names[j], names[k])

Names(entries) == [j \in DOMAIN entries |-> entries[j].name]

\* one iteration of the loop over os.scandir
ScanEntry ==
    /\ pc = "scan"
    /\ scan # <<>>
    /\ scan' = Tail(scan)
    /\ xes_files' = IF IsXesFile(Head(scan)) THEN Append(xes_files, Head(scan)) ELSE xes_files
    /\ UNCHANGED <<pc, error, fs, now, i, output_directory, results>>
    /\ UNCHANGED <<log_vars, env_vars, hist_vars>>

\* the scan is over: xes_files.sort, the listing, results = {}
SortFiles ==
    /\ pc = "scan"
    /\ scan = <<>>
    /\ xes_files' = SortFilesByName(xes_files)
    /\ presorted' = Ascending(Names(xes_files))
    /\ results' = <<>>
    /\ pc' = "loop"
    /\ UNCHANGED <<error, fs, now, scan, i, output_directory>>
    /\ UNCHANGED <<log_vars, env_vars, load_calls, writes, failed, irregular>>

\* the head of the loop over xes_files, with a file left: process_event_log
\* is called, none of its local variables bound yet
NextFile ==
    /\ pc = "loop"
    /\ i < Len(xes_files)
    /\ i' = i + 1
    /\ output_directory' = join(output_base_dir, xes_files[i + 1].name)
    /\ event_log' = 0
    /\ a' = 0
    /\ m' = 0
    /\ execution_times' = <<>>
    /\ nets' = <<>>
    /\ models' = <<>>
    /\ vals' = <<>>
    /\ conformance_metrics' = <<>>
    /\ pnml_files' = <<>>
    /\ failed' = {}
    /\ pc' = "load"
    /\ UNCHANGED <<error, fs, now, scan, xes_files, results>>
    /\ UNCHANGED <<env_vars, load_calls, writes, irregular, presorted>>

\* the loop is over: "All event logs processed successfully!"
Finish ==
    /\ pc = "loop"
    /\ i = Len(xes_files)
    /\ pc' = "done"
    /\ first_run_tree' = IF run = 1 THEN Tree(fs) ELSE first_run_tree
    /\ UNCHANGED <<error, fs, now, dir, run, main_vars, log_vars, hist_vars>>

----------------------------------------------------------------------------
(* process_event_log: loading and discovery *)

\* load_event_log returns; discover_models starts with no execution times
LoadEventLog ==
    /\ pc = "load"
    /\ event_log' = read_xes(file_entry)
    /\ load_calls' = Append(load_calls, file_entry.name)
    /\ execution_times' = <<>>
    /\ a' = 1
    /\ pc' = "discover"
    /\ UNCHANGED <<error, fs, now, nets, models, m, vals, conformance_metrics, pnml_files>>
    /\ UNCHANGED <<main_vars, env_vars, writes, failed, irregular, presorted>>

\* pm4py.read_xes raises
LoadEventLogFails ==
    /\ pc = "load"
    /\ load_calls' = Append(load_calls, file_entry.name)
    /\ Raise("read_xes")
    /\ UNCHANGED <<fs, now, main_vars, log_vars, env_vars>>
    /\ UNCHANGED <<writes, failed, irregular, presorted>>

\* the output tree after os.makedirs(output_dir, exist_ok=True), and whether it raised
MakeOutputDir == makedirs(fs, output_directory, TRUE)

\* a bug: os.makedirs without exist_ok
MakeOutputDirStrict == makedirs(fs, output_directory, FALSE)

EnsureOutputDir == MakeOutputDir

\* a step that ensures the directory and writes file n with content c returns
WriteStep(n, c) ==
    /\ ~EnsureOutputDir.err
    /\ fs' = WriteFile(EnsureOutputDir.fs, output_directory, n, c)
    /\ writes' = writes \cup {<<output_directory, n>>}

\* such a step raises: os.makedirs refuses, or the library or the write fails
\* with the directory there
WriteStepFails(exc) ==
    IF EnsureOutputDir.err
    THEN /\ Raise("FileExistsError")
         /\ UNCHANGED <<fs, writes>>
    ELSE /\ Raise(exc)
         /\ fs' = EnsureOutputDir.fs
         /\ UNCHANGED writes

\* discover_models: one miner returns; its time is taken and recorded
MinerReturns ==
    /\ pc = "discover"
    /\ \E dt \in 0..1 :
        /\ irregular + dt <= MaxIrregular
        /\ irregular' = irregular + dt
        /\ now' = now + dt
        /\ execution_times' = Append(execution_times, <<algorithm_name, (now + dt) - now>>)
    /\ nets' = Append(nets, Net(event_log, a))
    /\ IF a < Len(AlgorithmNames)
       THEN a' = a + 1 /\ pc' = "discover"
       ELSE a' = a /\ pc' = "times"
    /\ UNCHANGED <<error, event_log, models, m, vals, conformance_metrics, pnml_files>>
    /\ UNCHANGED <<main_vars, env_vars, load_calls, failed, presorted>>

\* a bug: execution_times.txt is rewritten after every miner
DiscoverWritesTimes ==
    /\ MinerReturns
    /\ WriteStep("execution_times.txt", TimesLines(execution_times'))

Discover ==
    /\ MinerReturns
    /\ UNCHANGED <<fs, writes>>

\* discover_models: a miner (or the conversion of the process tree) raises
DiscoverFails ==
    /\ pc = "discover"
    /\ Raise("miner")
    /\ UNCHANGED <<fs, now, main_vars, log_vars, env_vars, hist_vars>>

\* discover_models: execution_times.txt is written and the nets are returned
WriteExecutionTimes ==
    /\ pc = "times"
    /\ WriteStep("execution_times.txt", TimesLines(execution_times))
    /\ models' = [j \in 1..Len(nets) |-> <<AlgorithmNames[j], nets[j]>>]
    /\ conformance_metrics' = <<>>
    /\ pnml_files' = <<>>
    /\ a' = 1
    /\ m' = 1
    /\ vals' = <<>>
    /\ pc' = "calc"
    /\ UNCHANGED <<error, now, event_log, execution_times, nets>>
    /\ UNCHANGED <<main_vars, env_vars, load_calls, failed, irregular, presorted>>

WriteExecutionTimesFails ==
    /\ pc = "times"
    /\ WriteStepFails("open")
    /\ UNCHANGED <<now, main_vars, log_vars, env_vars>>
    /\ UNCHANGED <<load_calls, failed, irregular, presorted>>

----------------------------------------------------------------------------
(* process_event_log: the loop over models.items() *)

\* a bug: the metrics of an algorithm are kept only if none of them is None
MetricDoneDropsFailed(v) ==
    /\ vals' = v
    /\ IF m < Len(MetricCalls)
       THEN /\ m' = m + 1
            /\ pc' = "calc"
            /\ UNCHANGED conformance_metrics
       ELSE /\ m' = m
            /\ pc' = "visualize"
            /\ conformance_metrics' =
                   IF \E k \in DOMAIN v : v[k] = None
                   THEN conformance_metrics
                   ELSE Append(conformance_metrics, MetricsDict(models[a][1], v))

\* calc_conformance goes on with the next metric; after the fifth the
\* dictionary is returned and appended to conformance_metrics
MetricDone(v) ==
    /\ vals' = v
    /\ IF m < Len(MetricCalls)
       THEN /\ m' = m + 1
            /\ pc' = "calc"
            /\ UNCHANGED conformance_metrics
       ELSE /\ m' = m
            /\ pc' = "visualize"
            /\ conformance_metrics' =
                   Append(conformance_metrics, MetricsDict(models[a][1], v))

\* calc_conformance: a metric call returns and its value is kept
CalcMetric ==
    /\ pc = "calc"
    /\ MetricDone(Append(vals, Float(LibMetric(event_log, a, m))))
    /\ UNCHANGED <<error, fs, now, event_log, a, execution_times, nets, models, pnml_files>>
    /\ UNCHANGED <<main_vars, env_vars, hist_vars>>

\* calc_conformance: a metric call raises; the exception is caught and None is kept
CalcMetricFails ==
    /\ pc = "calc"
    /\ irregular < MaxIrregular
    /\ irregular' = irregular + 1
    /\ failed' = failed \cup {<<a, m>>}
    /\ MetricDone(Append(vals, None))
    /\ UNCHANGED <<error, fs, now, event_log, a, execution_times, nets, models, pnml_files>>
    /\ UNCHANGED <<main_vars, env_vars, load_calls, writes, presorted>>

\* visualize_model returns: the image is saved
VisualizeModel ==
    /\ pc = "visualize"
    /\ WriteStep(PngName(models[a][1]), <<"png", models[a][2]>>)
    /\ pc' = "export"
    /\ UNCHANGED <<error, now, main_vars, log_vars, env_vars>>
    /\ UNCHANGED <<load_calls, failed, irregular, presorted>>

VisualizeModelFails ==
    /\ pc = "visualize"
    /\ WriteStepFails("visualize")
    /\ UNCHANGED <<now, main_vars, log_vars, env_vars>>
    /\ UNCHANGED <<load_calls, failed, irregular, presorted>>

\* the loop over models.items() goes to the next model, or ends
NextModel ==
    /\ pnml_files' = Append(pnml_files, <<models[a][1], <<output_directory, PnmlName(models[a][1])>> >>)
    /\ IF a < Len(models)
       THEN a' = a + 1 /\ m' = 1 /\ vals' = <<>> /\ pc' = "calc"
       ELSE a' = a /\ m' = m /\ vals' = vals /\ pc' = "save"
    /\ UNCHANGED <<error, now, event_log, execution_times, nets, models, conformance_metrics>>
    /\ UNCHANGED <<main_vars, env_vars, load_calls, failed, irregular, presorted>>

\* a bug: save_conformance_to_csv is called inside the loop, after every export
ExportPnmlAndSave ==
    /\ pc = "export"
    /\ ~EnsureOutputDir.err
    /\ fs' = WriteFile(WriteFile(EnsureOutputDir.fs, output_directory,
                                 PnmlName(models[a][1]), <<"pnml", models[a][2]>>),
                       output_directory, "conformance_metrics.csv",
                       CsvRows(conformance_metrics))
    /\ writes' = writes \cup {<<output_directory, PnmlName(models[a][1])>>,
                              <<output_directory, "conformance_metrics.csv">>}
    /\ NextModel

\* export_pnml returns: the model file is written and its path kept
ExportPnml ==
    /\ pc = "export"
    /\ WriteStep(PnmlName(models[a][1]), <<"pnml", models[a][2]>>)
    /\ NextModel

ExportPnmlFails ==
    /\ pc = "export"
    /\ WriteStepFails("write_pnml")
    /\ UNCHANGED <<now, main_vars, log_vars, env_vars>>
    /\ UNCHANGED <<load_calls, failed, irregular, presorted>>

\* save_conformance_to_csv returns
SaveConformanceToCsv ==
    /\ pc = "save"
    /\ WriteStep("conformance_metrics.csv", CsvRows(conformance_metrics))
    /\ pc' = "return"
    /\ UNCHANGED <<error, now, main_vars, log_vars, env_vars>>
    /\ UNCHANGED <<load_calls, failed, irregular, presorted>>

SaveConformanceToCsvFails ==
    /\ pc = "save"
    /\ WriteStepFails("csv")
    /\ UNCHANGED <<now, main_vars, log_vars, env_vars>>
    /\ UNCHANGED <<load_calls, failed, irregular, presorted>>

\* process_event_log returns and main records the result
ReturnResult ==
    /\ pc = "return"
    /\ results' = Append(results, file_entry.name)
    /\ pc' = "loop"
    /\ UNCHANGED <<error, fs, now, scan, xes_files, i, output_directory>>
    /\ UNCHANGED <<log_vars, env_vars, hist_vars>>

----------------------------------------------------------------------------
(* The program is started again on the same folders, after a run that completed *)

\* main is called in a fresh interpreter
Restart(order) ==
    /\ pc' = "scan"
    /\ error' = "none"
    /\ scan' = order
    /\ xes_files' = <<>>
    /\ i' = 0
    /\ output_directory' = <<>>
    /\ results' = <<>>
    /\ event_log' = 0
    /\ a' = 0
    /\ execution_times' = <<>>
    /\ nets' = <<>>
    /\ models' = <<>>
    /\ m' = 0
    /\ vals' = <<>>
    /\ conformance_metrics' = <<>>
    /\ pnml_files' = <<>>
    /\ load_calls' = <<>>
    /\ writes' = {}
    /\ failed' = {}
    /\ presorted' = TRUE

Rerun ==
    /\ pc = "done"
    /\ run < MaxRuns
    /\ run' = run + 1
    /\ \E order \in ScanOrders(dir) : Restart(order)
    /\ UNCHANGED <<dir, fs, now, irregular, first_run_tree>>

----------------------------------------------------------------------------

Next ==
    \/ ScanEntry
    \/ SortFiles
    \/ NextFile
    \/ Finish
    \/ LoadEventLog
    \/ LoadEventLogFails
    \/ Discover
    \/ DiscoverFails
    \/ WriteExecutionTimes
    \/ WriteExecutionTimesFails
    \/ CalcMetric
    \/ CalcMetricFails
    \/ VisualizeModel
    \/ VisualizeModelFails
    \/ ExportPnml
    \/ ExportPnmlFails
    \/ SaveConformanceToCsv
    \/ SaveConformanceToCsvFails
    \/ ReturnResult

\* one run of the program
Spec == Init /\ [][Next]_vars

\* the program run again and again on a folder that does not change
InitRerun == Init /\ Cardinality(dir) <= MaxRerunEntries

NextRerun == Next \/ Rerun

SpecRerun == InitRerun /\ [][NextRerun]_vars

----------------------------------------------------------------------------
(* The claims *)

FixedOrder == <<"alpha", "inductive", "heuristics", "ilp">>

\* the names of the entries the scan is to select
SelectedNames ==
    { e.name : e \in { x \in dir : x.kind \in {"file", "symlink_to_file"}
                                   /\ endswith(x.name, Suffix) } }

OutDirOf(n) == <<"output/", n>>

\* the files of a complete output directory
ExpectedFiles ==
    { "execution_times.txt", "conformance_metrics.csv",
      "alpha_petri_net.png", "inductive_petri_net.png",
      "heuristics_petri_net.png", "ilp_petri_net.png",
      "alpha_model.pnml", "inductive_model.pnml",
      "heuristics_model.pnml", "ilp_model.pnml" }

Range(q) == { q[j] : j \in DOMAIN q }

\* the entry was selected, loaded or given an output directory
Touched(e) ==
    \/ e \in Range(xes_files)
    \/ e.name \in Range(load_calls)
    \/ OutDirOf(e.name) \in DOMAIN fs

\* the paths written in this run under the output directory of the log at hand
WrittenHere == { w \in writes : w[1] = output_directory }

\* C1: whatever order the scan yields the entries in, the logs are loaded in
\* strictly ascending lexicographic order of their names, only selected files
\* are loaded, and when the run completes every selected file has been loaded
\* and processed exactly once.
C1_LexicographicOrder ==
    /\ Ascending(load_calls)
    /\ Range(load_calls) \subseteq SelectedNames
    /\ pc = "done" => /\ results = load_calls
                      /\ Range(load_calls) = SelectedNames

\* a completed run over at least two logs that the scan yielded out of order
C1_Witness ==
    /\ pc = "done"
    /\ ~presorted
    /\ Len(results) >= 2

\* C2, as stated: an entry is selected, loaded or given an output directory
\* only if it is a regular file whose name ends with ".xes".
C2_OnlyRegularFiles ==
    \A e \in dir : Touched(e) => e.kind = "file" /\ endswith(e.name, Suffix)

\* C2, amended: an entry is selected, loaded or given an output directory only
\* if it is a regular file or a symbolic link to one and its name ends with
\* ".xes"; a subdirectory or an entry with another suffix never is.
C2_OnlyFilesAndLinksToFiles ==
    \A e \in dir :
        Touched(e) => /\ e.kind \in {"file", "symlink_to_file"}
                      /\ endswith(e.name, Suffix)

\* a completed run over a folder with a log, a subdirectory named *.xes and a
\* file with another suffix
C2_Witness ==
    /\ pc = "done"
    /\ results # <<>>
    /\ \E e \in dir : e.kind = "directory" /\ endswith(e.name, Suffix)
    /\ \E e \in dir : e.kind = "file" /\ ~endswith(e.name, Suffix)

\* C3: every conformance CSV on disk has the header and exactly 4 data rows,
\* the row of alpha, inductive, heuristics and ilp in this order, whichever
\* metrics failed.
C3_OneRowPerAlgorithm ==
    \A d \in DOMAIN fs :
        "conformance_metrics.csv" \in DOMAIN fs[d] =>
            LET rows == fs[d]["conformance_metrics.csv"]
            IN  /\ Len(rows) = Len(FixedOrder) + 1
                /\ \A j \in 1..Len(FixedOrder) : rows[j + 1][1] = FixedOrder[j]

\* the CSV of a log with a failed metric has just been written
C3_Witness ==
    /\ pc = "return"
    /\ failed # {}
    /\ "conformance_metrics.csv" \in DOMAIN fs[output_directory]

\* C4: when exactly one metric of an algorithm failed, its cell in the row of
\* the algorithm is blank and the other 4 cells hold the library's values;
\* a failed metric is recorded as None and the calls after it are made: the
\* five metrics of an algorithm are all attempted before its image is rendered.
C4_BlankCell ==
    /\ pc = "return" =>
        LET rows == fs[output_directory]["conformance_metrics.csv"]
        IN  \A j \in 1..4 :
                Cardinality({ k \in 1..5 : <<j, k>> \in failed }) = 1 =>
                    \A k \in 1..5 :
                        rows[j + 1][k + 1] =
                            IF <<j, k>> \in failed THEN ""
                            ELSE ToString(LibMetric(event_log, j, k))
    /\ pc = "visualize" => Len(vals) = 5
    /\ \A f \in failed :
        IF f[1] = a /\ pc = "calc"
        THEN f[2] < m /\ vals[f[2]] = None
        ELSE /\ f[1] <= Len(conformance_metrics)
             /\ conformance_metrics[f[1]][fieldnames[f[2] + 1]] = None

\* the CSV of a log is written, a metric of an algorithm before the last one
\* failed, and another log is left
C4_Witness ==
    /\ pc = "return"
    /\ \E f \in failed : f[1] < 4
    /\ i < Len(xes_files)

\* C5: os.makedirs never refuses a directory that exists, and a second run
\* that completes has written every file of the output tree again and leaves
\* the directories and files the first run left.
C5_Idempotent ==
    /\ error # "FileExistsError"
    /\ (run > 1 /\ pc = "done") =>
        /\ Tree(fs) = first_run_tree
        /\ writes = Paths(fs)

\* a second run that completed, with output on disk
C5_Witness ==
    /\ run > 1
    /\ pc = "done"
    /\ DOMAIN fs # {}

\* C6, as stated: an execution-time file has 4 lines, one per algorithm, in
\* the fixed order.
C6_FourLines ==
    \A d \in DOMAIN fs :
        "execution_times.txt" \in DOMAIN fs[d] =>
            LET lines == fs[d]["execution_times.txt"]
            IN  /\ Len(lines) = 4
                /\ \A j \in 1..4 : lines[j][1] = FixedOrder[j]

\* C6, amended: an execution-time file has 6 lines: a title line and a ruler
\* line, then 4 lines, one per algorithm in the fixed order, each the name of
\* the algorithm, ": " and the elapsed time.
C6_HeaderAndFourLines ==
    \A d \in DOMAIN fs :
        "execution_times.txt" \in DOMAIN fs[d] =>
            LET lines == fs[d]["execution_times.txt"]
            IN  /\ Len(lines) = 6
                /\ lines[1] = <<"Algorithm Execution Times (seconds)">>
                /\ lines[2] = <<"================================">>
                /\ \A j \in 1..4 : /\ Len(lines[j + 2]) = 3
                                   /\ lines[j + 2][1] = FixedOrder[j]
                                   /\ lines[j + 2][2] = ": "

\* an execution-time file was written after a miner took a millisecond
C6_Witness ==
    /\ pc = "calc"
    /\ now > 0
    /\ "execution_times.txt" \in DOMAIN fs[output_directory]

\* C7: when a run completes there is exactly one output directory per
\* selected file, named after it, and each holds exactly the execution-time
\* file, the CSV, the 4 images and the 4 model files.
C7_OneDirPerFile ==
    pc = "done" =>
        /\ DOMAIN fs = { OutDirOf(n) : n \in SelectedNames }
        /\ Cardinality(DOMAIN fs) = Cardinality(SelectedNames)
        /\ \A d \in DOMAIN fs : DOMAIN fs[d] = ExpectedFiles

\* a completed run over at least two logs
C7_Witness ==
    /\ pc = "done"
    /\ Cardinality(DOMAIN fs) >= 2

\* C8: nothing is written for a log and no metric of it is computed before
\* its four discovery calls have returned; a miner that raises ends the run
\* with nothing written or computed for the log, whatever miners returned.
C8_MinerFailureAborts ==
    /\ pc \in {"load", "discover"} =>
        /\ WrittenHere = {}
        /\ vals = <<>>
        /\ conformance_metrics = <<>>
    /\ error = "miner" =>
        /\ pc = "aborted"
        /\ WrittenHere = {}
        /\ vals = <<>>
        /\ conformance_metrics = <<>>

\* the third miner of the second log raised
C8_Witness ==
    /\ error = "miner"
    /\ Len(nets) = 2
    /\ i = 2

\* C9: the order of the steps of process_event_log
C9_StepOrder ==
    \* the miners are run in the fixed order
    /\ \A j \in DOMAIN execution_times : execution_times[j][1] = FixedOrder[j]
    \* no metric before all four nets are there
    /\ (vals # <<>> \/ conformance_metrics # <<>>) =>
        /\ Len(nets) = 4
        /\ [j \in DOMAIN models |-> models[j][1]] = FixedOrder
    \* the image of an algorithm after its five metrics, and after the
    \* model file of the algorithm before it
    /\ \A j \in 1..4 :
        <<output_directory, FixedOrder[j] \o "_petri_net.png">> \in writes =>
            /\ Len(conformance_metrics) >= j
            /\ j > 1 => <<output_directory, FixedOrder[j - 1] \o "_model.pnml">> \in writes
    \* the model file of an algorithm after its image
    /\ \A j \in 1..4 :
        <<output_directory, FixedOrder[j] \o "_model.pnml">> \in writes =>
            <<output_directory, FixedOrder[j] \o "_petri_net.png">> \in writes
    \* the CSV after the images and the model files of all four
    /\ <<output_directory, "conformance_metrics.csv">> \in writes =>
        \A j \in 1..4 :
            /\ <<output_directory, FixedOrder[j] \o "_petri_net.png">> \in writes
            /\ <<output_directory, FixedOrder[j] \o "_model.pnml">> \in writes
    \* a failed visualization or export leaves no CSV, with metrics computed
    /\ error \in {"visualize", "write_pnml"} =>
        /\ <<output_directory, "conformance_metrics.csv">> \notin writes
        /\ Len(conformance_metrics) = a

\* the export of the third model raised
C9_Witness ==
    /\ pc = "aborted"
    /\ error = "write_pnml"
    /\ a = 3

\* what holds once an unguarded call has raised while the i-th file was processed
C10_Aborted ==
    error # "none" =>
        /\ pc = "aborted"
        /\ load_calls = SubSeq(Names(xes_files), 1, i)
        /\ results = SubSeq(Names(xes_files), 1, i - 1)
        /\ \A d \in DOMAIN fs \cup { w[1] : w \in writes } :
            \E j \in 1..i : d = OutDirOf(xes_files[j].name)
        /\ \A j \in 1..(i - 1) :
            DOMAIN fs[OutDirOf(xes_files[j].name)] = ExpectedFiles

\* a step leaves every directory but that of the file at hand as it is
C10_OthersUnchanged ==
    \A d \in DOMAIN fs :
        d # output_directory' => d \in DOMAIN fs' /\ fs'[d] = fs[d]

\* C10: an unguarded failure while the k-th file is processed ends the run:
\* the run is aborted for good and never completes, no file after the k-th
\* is loaded or has an output directory, the outputs of files 1..k-1 are
\* complete, and no step changes the output of another file.
C10_FailureAbortsRun == []C10_Aborted /\ [][C10_OthersUnchanged]_vars

\* the run was aborted at the second of three files
C10_Witness ==
    /\ pc = "aborted"
    /\ i = 2
    /\ Len(xes_files) = 3

====
